---- MODULE Spec2Model ----
(***************************************************************************)
(* Model of custom_components/smartthinq_sensors/climate.py: the           *)
(* air-conditioner climate entity (LGEACClimate) and the refrigerator      *)
(* compartment climate entity (LGERefrigeratorClimate).                    *)
(*                                                                         *)
(* Python values are represented as follows.                               *)
(*   - None is the string "None" (distinct from PRESET_NONE = "none").     *)
(*   - A dict is a sequence of <<key, value>> pairs with unique keys, in   *)
(*     insertion order.                                                    *)
(*   - An optional dict (a lazily built cache) is <<>> for None and <<d>>  *)
(*     for the dict d.                                                     *)
(*   - A list of swing modes that the constructor normalises with          *)
(*     "or None" is <<>> for None (an empty list is never stored).         *)
(* An operation is run on a context record c: the entity fields (self),    *)
(* the device snapshot (state), the calls made so far in order (log: the   *)
(* device commands and the async_set_updated calls), the outcome (result), *)
(* the returned value (ret, retInt, list) and the index of the device      *)
(* command that fails in this call (failAt, 0 for none) with its place in  *)
(* the log once it has failed (failed).  An exception stops the operation: *)
(* every later step leaves the context alone.                              *)
(***************************************************************************)
EXTENDS Integers, Sequences, FiniteSets, TLC

VARIABLES device, state, self, last

vars == <<device, state, self, last>>

---------------------------------------------------------------------------
(* Bounds of the model *)

\* the devices of the model support modes among the first NumDeviceCodes names
NumDeviceCodes == 4
\* the longest list of vertical or horizontal swing modes of a device
MaxSwing == 1
\* the most capabilities (supported modes plus swing modes plus fan speeds) of a device
MaxCaps == 3
\* the latest device command of one call that may fail
MaxFailAt == 3
\* the longest string a temperature accessor returns
MaxStrLen == 2
\* the largest magnitude of a numeric temperature
MaxTemp == 1
\* the longest list of fan speeds of a device
MaxFan == 1

---------------------------------------------------------------------------
(* Constants of the platform and of the module *)

None == "None"

OFF == "off"
AUTO == "auto"
HEAT == "heat"
DRY == "dry"
COOL == "cool"
FAN_ONLY == "fan_only"
HEAT_COOL == "heat_cool"
HVACMode == {OFF, AUTO, HEAT, DRY, COOL, FAN_ONLY, HEAT_COOL}

PRESET_ECO == "eco"
PRESET_NONE == "none"

ATTR_FRIDGE == "fridge"
ATTR_FREEZER == "freezer"
HVAC_MODE_NONE == "--"

\* names of the vendor operating modes (ACMode), those of the two tables first
ACModeNames ==
    <<"COOL", "ENERGY_SAVING", "ENERGY_SAVER", "HEAT", "FAN",
      "AI", "DRY", "AIRCLEAN", "ACO", "AROMA">>

HVAC_MODE_LOOKUP ==
    << <<"AI", AUTO>>, <<"HEAT", HEAT>>, <<"DRY", DRY>>, <<"COOL", COOL>>,
       <<"AIRCLEAN", FAN_ONLY>>, <<"ACO", HEAT_COOL>> >>

PRESET_MODE_LOOKUP ==
    << <<"ENERGY_SAVING", [preset |-> PRESET_ECO, hvac |-> COOL]>>,
       <<"ENERGY_SAVER", [preset |-> PRESET_ECO, hvac |-> COOL]>> >>

\* names of swing positions and fan speeds a device may list
SwingNames == <<"Off", "All", "Half", "Wide">>
FanNames == <<"LOW", "HIGH", "MID">>

---------------------------------------------------------------------------
(* Python dicts and truth values *)

DictKeys(d) == {d[i][1] : i \in 1..Len(d)}

DictValues(d) == [i \in 1..Len(d) |-> d[i][2]]

DictHas(d, k) == \E i \in 1..Len(d) : d[i][1] = k

\* d.get(k, default)
DictGet(d, k, default) ==
    IF DictHas(d, k)
    THEN d[CHOOSE i \in 1..Len(d) : d[i][1] = k][2]
    ELSE default

\* d[k] = v
DictSet(d, k, v) ==
    IF DictHas(d, k)
    THEN [i \in 1..Len(d) |-> IF d[i][1] = k THEN <<k, v>> ELSE d[i]]
    ELSE Append(d, <<k, v>>)

RECURSIVE InvertFrom(_, _, _)
InvertFrom(d, i, acc) ==
    IF i > Len(d) THEN acc
    ELSE InvertFrom(d, i + 1, DictSet(acc, d[i][2], d[i][1]))

\* {v: k for k, v in d.items()}
Invert(d) == InvertFrom(d, 1, <<>>)

SeqToSet(s) == {s[i] : i \in 1..Len(s)}

Prefix(s, n) == [i \in 1..n |-> s[i]]

\* truth value of an optional string
Truthy(x) == x # None /\ x # ""

---------------------------------------------------------------------------
(* Device layer: the commands of the device object and their effect on    *)
(* the snapshot the entity reads (self._api.state)                        *)

Cmd(name, arg, num) == [name |-> name, arg |-> arg, num |-> num]

\* the entry of the log for self._api.async_set_updated()
SetUpdated == [name |-> "async_set_updated", arg |-> None, num |-> 0]

IsCmd(e) == e.name # "async_set_updated"

\* the device commands of a log, and the number of its async_set_updated calls
Cmds(log) == SelectSeq(log, IsCmd)

Marks(log) == Len(log) - Len(Cmds(log))

\* the snapshot after a command the device accepted
ApplyCommand(st, cmd) ==
    IF cmd.name = "power" THEN [st EXCEPT !.is_on = (cmd.arg = "True")]
    ELSE IF cmd.name = "set_op_mode" THEN [st EXCEPT !.operation_mode = cmd.arg]
    ELSE IF cmd.name = "set_vertical_swing_mode"
         THEN [st EXCEPT !.vertical_swing_mode = cmd.arg]
    ELSE IF cmd.name = "set_horizontal_swing_mode"
         THEN [st EXCEPT !.horizontal_swing_mode = cmd.arg]
    ELSE st

---------------------------------------------------------------------------
(* Steps of an operation *)

\* await self._device.<command>(...): the command is issued; it either
\* succeeds or raises, and a raise ends the operation
Issue(c, cmd) ==
    IF c.result # "ok" THEN c
    ELSE IF Len(Cmds(c.log)) + 1 = c.failAt
         THEN [c EXCEPT !.log = Append(@, cmd), !.result = "DeviceError",
                        !.failed = Len(c.log) + 1]
    ELSE [c EXCEPT !.log = Append(@, cmd), !.state = ApplyCommand(@, cmd)]

\* Mark run whether or not the operation has failed (as in a finally clause)
MarkAlways(c) == [c EXCEPT !.log = Append(@, SetUpdated)]

\* self._api.async_set_updated()
Mark(c) ==
    IF c.result # "ok" THEN c ELSE [c EXCEPT !.log = Append(@, SetUpdated)]

\* raise <exception>
Raise(c, exc) ==
    IF c.result # "ok" THEN c ELSE [c EXCEPT !.result = exc]

---------------------------------------------------------------------------
(* LGEACClimate: the mode tables *)

RECURSIVE FilterKeysFrom(_, _, _, _)
FilterKeysFrom(d, keys, i, acc) ==
    IF i > Len(d) THEN acc
    ELSE FilterKeysFrom(d, keys, i + 1,
                        IF d[i][1] \in keys THEN DictSet(acc, d[i][1], d[i][2]) ELSE acc)

\* BuildHvacModeLookup without the substitution of the sentinel
BuildHvacModeLookupNoSentinel(op_modes) ==
    FilterKeysFrom(HVAC_MODE_LOOKUP, op_modes, 1, <<>>)

\* the table _available_hvac_modes builds from the device's op_modes
BuildHvacModeLookup(op_modes) ==
    LET lookup == FilterKeysFrom(HVAC_MODE_LOOKUP, op_modes, 1, <<>>)
    IN  IF lookup = <<>> THEN << <<HVAC_MODE_NONE, AUTO>> >> ELSE lookup

available_hvac_modes(c) ==
    IF c.self.hvac_mode_lookup = <<>>
    THEN [c EXCEPT !.self.hvac_mode_lookup = <<BuildHvacModeLookup(device.op_modes)>>]
    ELSE c

RECURSIVE PresetLoopFrom(_, _, _, _)

\* PresetLoopFrom without the test of the associated hvac mode
PresetLoopNoHvacTest(i, op_modes, hvac_modes, modes) ==
    IF i > Len(PRESET_MODE_LOOKUP) THEN modes
    ELSE LET key == PRESET_MODE_LOOKUP[i][1]
             mode == PRESET_MODE_LOOKUP[i][2]
         IN  IF key \notin op_modes
             THEN PresetLoopFrom(i + 1, op_modes, hvac_modes, modes)
             ELSE PresetLoopFrom(i + 1, op_modes, hvac_modes,
                                 DictSet(modes, mode.preset, key))

\* PresetLoopFrom keeping the first code of a preset label, not the last
PresetLoopFirstWins(i, op_modes, hvac_modes, modes) ==
    IF i > Len(PRESET_MODE_LOOKUP) THEN modes
    ELSE LET key == PRESET_MODE_LOOKUP[i][1]
             mode == PRESET_MODE_LOOKUP[i][2]
         IN  IF key \notin op_modes
             THEN PresetLoopFrom(i + 1, op_modes, hvac_modes, modes)
             ELSE IF mode.hvac \notin SeqToSet(hvac_modes)
             THEN PresetLoopFrom(i + 1, op_modes, hvac_modes, modes)
             ELSE IF DictHas(modes, mode.preset)
             THEN PresetLoopFrom(i + 1, op_modes, hvac_modes, modes)
             ELSE PresetLoopFrom(i + 1, op_modes, hvac_modes,
                                 DictSet(modes, mode.preset, key))

\* the loop of _available_preset_modes: modes[mode["preset"]] = key
PresetLoopFrom(i, op_modes, hvac_modes, modes) ==
    IF i > Len(PRESET_MODE_LOOKUP) THEN modes
    ELSE LET key == PRESET_MODE_LOOKUP[i][1]
             mode == PRESET_MODE_LOOKUP[i][2]
         IN  IF key \notin op_modes
             THEN PresetLoopFrom(i + 1, op_modes, hvac_modes, modes)
             ELSE IF mode.hvac \notin SeqToSet(hvac_modes)
             THEN PresetLoopFrom(i + 1, op_modes, hvac_modes, modes)
             ELSE PresetLoopFrom(i + 1, op_modes, hvac_modes,
                                 DictSet(modes, mode.preset, key))

available_preset_modes(c) ==
    IF c.self.preset_mode_lookup = <<>>
    THEN LET c1 == available_hvac_modes(c)
             hvac_modes == DictValues(c1.self.hvac_mode_lookup[1])
             modes == PresetLoopFrom(1, device.op_modes, hvac_modes, <<>>)
             c2 == IF modes # <<>>
                   THEN [c1 EXCEPT !.self.attr_preset_mode = PRESET_NONE]
                   ELSE c1
         IN  [c2 EXCEPT !.self.preset_mode_lookup = <<Invert(modes)>>]
    ELSE c

---------------------------------------------------------------------------
(* LGEACClimate: properties *)

\* ResetPreset leaving the attribute as it is
ResetPresetSkipped(c) == c

\* if self._attr_preset_mode: self._attr_preset_mode = PRESET_NONE
ResetPreset(c) ==
    IF Truthy(c.self.attr_preset_mode)
    THEN [c EXCEPT !.self.attr_preset_mode = PRESET_NONE]
    ELSE c

hvac_mode(c) ==
    LET op_mode == c.state.operation_mode
    IN  IF ~c.state.is_on \/ op_mode = None
        THEN [ResetPreset(c) EXCEPT !.ret = OFF]
        ELSE LET c1 == available_preset_modes(c)
                 presets == c1.self.preset_mode_lookup[1]
             IN  IF DictHas(presets, op_mode)
                 THEN [c1 EXCEPT !.self.attr_preset_mode = DictGet(presets, op_mode, None),
                                 !.ret = DictGet(PRESET_MODE_LOOKUP, op_mode, None).hvac]
                 ELSE LET c2 == available_hvac_modes(ResetPreset(c1))
                          modes == c2.self.hvac_mode_lookup[1]
                      IN  [c2 EXCEPT !.ret = DictGet(modes, op_mode, AUTO)]

\* [HVACMode.OFF] + list(modes.values())
hvac_modes(c) ==
    LET c1 == available_hvac_modes(c)
    IN  [c1 EXCEPT !.list = <<OFF>> \o DictValues(c1.self.hvac_mode_lookup[1])]

\* None, or [PRESET_NONE] + list(modes.values())
preset_modes(c) ==
    LET c1 == available_preset_modes(c)
        modes == c1.self.preset_mode_lookup[1]
    IN  IF modes = <<>> THEN [c1 EXCEPT !.list = <<>>]
        ELSE [c1 EXCEPT !.list = <<PRESET_NONE>> \o DictValues(modes)]

swing_mode(c) ==
    IF c.self.use_h_mode
    THEN c.state.horizontal_swing_mode
    ELSE c.state.vertical_swing_mode

swing_horizontal_mode(c) == c.state.horizontal_swing_mode

---------------------------------------------------------------------------
(* LGEACClimate: commands *)

\* async_set_hvac_mode without the power-on of a device that is off
async_set_hvac_mode_no_power_on(c, mode) ==
    IF c.result # "ok" THEN c
    ELSE IF mode = OFF
    THEN Mark(Issue(c, Cmd("power", "False", 0)))
    ELSE LET c1 == available_hvac_modes(c)
             reverse_lookup == Invert(c1.self.hvac_mode_lookup[1])
             operation_mode == DictGet(reverse_lookup, mode, None)
         IN  IF operation_mode = None
             THEN Raise(c1, "ValueError")
             ELSE Mark(IF operation_mode # HVAC_MODE_NONE
                       THEN Issue(c1, Cmd("set_op_mode", operation_mode, 0))
                       ELSE c1)

\* async_set_hvac_mode sending no power-off to a device that is already off
async_set_hvac_mode_off_only_when_on(c, mode) ==
    IF c.result # "ok" THEN c
    ELSE IF mode = OFF
    THEN IF c.state.is_on THEN Mark(Issue(c, Cmd("power", "False", 0))) ELSE Mark(c)
    ELSE LET c1 == available_hvac_modes(c)
             reverse_lookup == Invert(c1.self.hvac_mode_lookup[1])
             operation_mode == DictGet(reverse_lookup, mode, None)
         IN  IF operation_mode = None
             THEN Raise(c1, "ValueError")
             ELSE LET c2 == IF ~c1.state.is_on
                            THEN Issue(c1, Cmd("power", "True", 0))
                            ELSE c1
                      c3 == IF operation_mode # HVAC_MODE_NONE
                            THEN Issue(c2, Cmd("set_op_mode", operation_mode, 0))
                            ELSE c2
                  IN  Mark(c3)

async_set_hvac_mode(c, mode) ==
    IF c.result # "ok" THEN c
    ELSE IF mode = OFF
    THEN Mark(Issue(c, Cmd("power", "False", 0)))
    ELSE LET c1 == available_hvac_modes(c)
             reverse_lookup == Invert(c1.self.hvac_mode_lookup[1])
             operation_mode == DictGet(reverse_lookup, mode, None)
         IN  IF operation_mode = None
             THEN Raise(c1, "ValueError")
             ELSE LET c2 == IF ~c1.state.is_on
                            THEN Issue(c1, Cmd("power", "True", 0))
                            ELSE c1
                      c3 == IF operation_mode # HVAC_MODE_NONE
                            THEN Issue(c2, Cmd("set_op_mode", operation_mode, 0))
                            ELSE c2
                  IN  Mark(c3)

\* async_set_preset_mode clearing the preset of a device that is off too
async_set_preset_mode_ignoring_power(c, preset_mode) ==
    LET c1 == available_preset_modes(c)
        modes == c1.self.preset_mode_lookup[1]
        reverse_lookup == Invert(modes)
    IN  IF modes = <<>>
        THEN Raise(c1, "NotImplementedError")
        ELSE IF preset_mode = PRESET_NONE
        THEN LET curr_preset == c1.self.attr_preset_mode
             IN  IF curr_preset # PRESET_NONE
                 THEN IF ~DictHas(reverse_lookup, curr_preset)
                      THEN Raise(c1, "KeyError")
                      ELSE LET op_mode == DictGet(reverse_lookup, curr_preset, None)
                           IN  async_set_hvac_mode(
                                   c1, DictGet(PRESET_MODE_LOOKUP, op_mode, None).hvac)
                 ELSE c1
        ELSE LET operation_mode == DictGet(reverse_lookup, preset_mode, None)
             IN  IF operation_mode = None
                 THEN Raise(c1, "ValueError")
                 ELSE LET c2 == IF ~c1.state.is_on
                                THEN Issue(c1, Cmd("power", "True", 0))
                                ELSE c1
                      IN  Mark(Issue(c2, Cmd("set_op_mode", operation_mode, 0)))

async_set_preset_mode(c, preset_mode) ==
    LET c1 == available_preset_modes(c)
        modes == c1.self.preset_mode_lookup[1]
        reverse_lookup == Invert(modes)
    IN  IF modes = <<>>
        THEN Raise(c1, "NotImplementedError")
        ELSE IF preset_mode = PRESET_NONE
        THEN LET curr_preset == c1.self.attr_preset_mode
             IN  IF curr_preset # PRESET_NONE /\ c1.state.is_on
                 THEN IF ~DictHas(reverse_lookup, curr_preset)
                      THEN Raise(c1, "KeyError")
                      ELSE LET op_mode == DictGet(reverse_lookup, curr_preset, None)
                           IN  async_set_hvac_mode(
                                   c1, DictGet(PRESET_MODE_LOOKUP, op_mode, None).hvac)
                 ELSE c1
        ELSE LET operation_mode == DictGet(reverse_lookup, preset_mode, None)
             IN  IF operation_mode = None
                 THEN Raise(c1, "ValueError")
                 ELSE LET c2 == IF ~c1.state.is_on
                                THEN Issue(c1, Cmd("power", "True", 0))
                                ELSE c1
                      IN  Mark(Issue(c2, Cmd("set_op_mode", operation_mode, 0)))

\* kwargs: hvac_mode is an HVACMode or None (absent); temperature is <<>>
\* (absent) or <<t>>
async_set_temperature(c, kwargs) ==
    LET c1 == IF Truthy(kwargs.hvac_mode)
              THEN async_set_hvac_mode(c, kwargs.hvac_mode)
              ELSE c
    IN  IF Truthy(kwargs.hvac_mode) /\ kwargs.hvac_mode = OFF
        THEN c1
        ELSE IF kwargs.temperature # <<>>
        THEN Mark(Issue(c1, Cmd("set_target_temp", None, kwargs.temperature[1])))
        ELSE c1

async_set_fan_mode(c, fan_mode) ==
    IF fan_mode \notin SeqToSet(c.self.attr_fan_modes)
    THEN Raise(c, "ValueError")
    ELSE Mark(Issue(c, Cmd("set_fan_speed", fan_mode, 0)))

\* async_set_swing_mode always commanding the vertical axis
async_set_swing_mode_vertical_only(c, mode) ==
    IF mode \notin SeqToSet(c.self.attr_swing_modes)
    THEN Raise(c, "ValueError")
    ELSE IF mode # swing_mode(c)
    THEN Mark(Issue(c, Cmd("set_vertical_swing_mode", mode, 0)))
    ELSE c

async_set_swing_mode(c, mode) ==
    IF mode \notin SeqToSet(c.self.attr_swing_modes)
    THEN Raise(c, "ValueError")
    ELSE IF mode # swing_mode(c)
    THEN Mark(Issue(c, IF c.self.use_h_mode
                       THEN Cmd("set_horizontal_swing_mode", mode, 0)
                       ELSE Cmd("set_vertical_swing_mode", mode, 0)))
    ELSE c

async_set_swing_horizontal_mode(c, mode) ==
    IF mode \notin SeqToSet(c.self.attr_swing_horizontal_modes)
    THEN Raise(c, "ValueError")
    ELSE IF mode # swing_horizontal_mode(c)
    THEN Mark(Issue(c, Cmd("set_horizontal_swing_mode", mode, 0)))
    ELSE c

async_turn_on(c) == Mark(Issue(c, Cmd("power", "True", 0)))

async_turn_off(c) == Mark(Issue(c, Cmd("power", "False", 0)))

---------------------------------------------------------------------------
(* LGERefrigeratorClimate *)

Digits == <<"0", "1", "2", "3", "4", "5", "6", "7", "8", "9">>

IsDigit(ch) == \E i \in 1..Len(Digits) : Digits[i] = ch

DigitValue(ch) == (CHOOSE i \in 1..Len(Digits) : Digits[i] = ch) - 1

RECURSIVE StripLeft(_)
StripLeft(s) ==
    IF s # <<>> /\ Head(s) = " " THEN StripLeft(Tail(s)) ELSE s

RECURSIVE StripRight(_)
StripRight(s) ==
    IF s # <<>> /\ s[Len(s)] = " " THEN StripRight(SubSeq(s, 1, Len(s) - 1)) ELSE s

RECURSIVE DigitsValue(_, _)
DigitsValue(s, acc) ==
    IF s = <<>> THEN acc ELSE DigitsValue(Tail(s), 10 * acc + DigitValue(Head(s)))

\* int(s) of a string: surrounding blanks are dropped, then an optional
\* sign and at least one decimal digit; anything else is a ValueError
IntOfStr(s) ==
    LET t == StripRight(StripLeft(s))
        signed == t # <<>> /\ Head(t) \in {"+", "-"}
        body == IF signed THEN Tail(t) ELSE t
    IN  IF body = <<>> \/ \E i \in 1..Len(body) : ~IsDigit(body[i])
        THEN [exc |-> "ValueError", v |-> 0]
        ELSE [exc |-> "",
              v |-> IF signed /\ Head(t) = "-"
                    THEN 0 - DigitsValue(body, 0)
                    ELSE DigitsValue(body, 0)]

\* PyInt rounding a float down instead of towards zero
PyIntFloor(x) ==
    IF x.kind = "int" THEN [exc |-> "", v |-> x.n]
    ELSE IF x.kind = "float" THEN [exc |-> "", v |-> x.n \div 2]
    ELSE IF x.kind = "nan" THEN [exc |-> "ValueError", v |-> 0]
    ELSE IF x.kind = "inf" THEN [exc |-> "OverflowError", v |-> 0]
    ELSE IF x.kind = "str" THEN IntOfStr(x.s)
    ELSE [exc |-> "TypeError", v |-> 0]

\* int(x) of what the temperature accessor returned.  A float is n halves.
PyInt(x) ==
    IF x.kind = "int" THEN [exc |-> "", v |-> x.n]
    ELSE IF x.kind = "float"
    THEN [exc |-> "", v |-> IF x.n >= 0 THEN x.n \div 2 ELSE 0 - ((0 - x.n) \div 2)]
    ELSE IF x.kind = "nan" THEN [exc |-> "ValueError", v |-> 0]
    ELSE IF x.kind = "inf" THEN [exc |-> "OverflowError", v |-> 0]
    ELSE IF x.kind = "str" THEN IntOfStr(x.s)
    ELSE [exc |-> "TypeError", v |-> 0]

\* reading: what entity_description.temp_fn(self._wrap_device) does in
\* this call (kind "raise": it raises)
target_temperature(c, reading) ==
    IF reading.kind = "raise" THEN Raise(c, "AccessorError")
    ELSE IF reading.kind = "none" THEN [c EXCEPT !.ret = None]
    ELSE LET r == PyInt(reading)
         IN  IF r.exc = "ValueError" THEN [c EXCEPT !.ret = None]
             ELSE IF r.exc # "" THEN Raise(c, r.exc)
             ELSE [c EXCEPT !.ret = "int", !.retInt = r.v]

\* set_temp_fn of the compartment's description
set_temp_fn(c, new_temp) ==
    Issue(c, Cmd(IF device.description = ATTR_FRIDGE
                 THEN "set_fridge_target_temp"
                 ELSE "set_freezer_target_temp", None, new_temp))

ref_async_set_temperature(c, kwargs) ==
    IF kwargs.temperature # <<>>
    THEN Mark(set_temp_fn(c, kwargs.temperature[1]))
    ELSE c

---------------------------------------------------------------------------
(* Construction *)

\* LGEACClimate.__init__
LGEACClimate_init(dev) ==
    LET v == dev.vertical_swing_modes
        h == dev.horizontal_swing_modes
        remap == v = <<>> /\ h # <<>>
    IN  [attr_fan_modes |-> dev.fan_speeds,
         use_h_mode |-> remap,
         attr_swing_modes |-> IF remap THEN h ELSE v,
         attr_swing_horizontal_modes |-> IF remap THEN <<>> ELSE h,
         attr_preset_mode |-> None,
         hvac_mode_lookup |-> <<>>,
         preset_mode_lookup |-> <<>>,
         attr_hvac_modes |-> <<>>,
         attr_hvac_mode |-> None]

\* LGERefrigeratorClimate.__init__
LGERefrigeratorClimate_init(dev) ==
    [attr_fan_modes |-> <<>>,
     use_h_mode |-> FALSE,
     attr_swing_modes |-> <<>>,
     attr_swing_horizontal_modes |-> <<>>,
     attr_preset_mode |-> None,
     hvac_mode_lookup |-> <<>>,
     preset_mode_lookup |-> <<>>,
     attr_hvac_modes |-> <<AUTO>>,
     attr_hvac_mode |-> AUTO]

DeviceCodes == SeqToSet(Prefix(ACModeNames, NumDeviceCodes))

\* the air conditioners of the model
ACDevices ==
    {[kind |-> "AC", op_modes |-> S, fan_speeds |-> Prefix(FanNames, nf),
      vertical_swing_modes |-> Prefix(SwingNames, nv),
      horizontal_swing_modes |-> Prefix(SwingNames, nh),
      description |-> None] :
        <<S, nf, nv, nh>> \in
            {x \in (SUBSET DeviceCodes) \X (0..MaxFan) \X (0..MaxSwing) \X (0..MaxSwing) :
                Cardinality(x[1]) + x[2] + x[3] + x[4] <= MaxCaps}}

\* the refrigerators of the model, one entity per compartment description
RefDevices ==
    {[kind |-> "REFRIGERATOR", op_modes |-> {}, fan_speeds |-> <<>>,
      vertical_swing_modes |-> <<>>, horizontal_swing_modes |-> <<>>,
      description |-> key] : key \in {ATTR_FRIDGE, ATTR_FREEZER}}

\* the HVAC modes callers ask for: OFF, AUTO, every mode a device of the
\* model can offer, and HEAT_COOL, which none of them offers
ModeInputs ==
    {OFF, AUTO, HEAT_COOL}
    \cup {DictGet(HVAC_MODE_LOOKUP, k, None) : k \in DeviceCodes \cap DictKeys(HVAC_MODE_LOOKUP)}

\* the snapshots an air conditioner may report
Snapshots(dev) ==
    [is_on : BOOLEAN,
     operation_mode : DeviceCodes \cup {None},
     vertical_swing_mode : SeqToSet(dev.vertical_swing_modes) \cup {None},
     horizontal_swing_mode : SeqToSet(dev.horizontal_swing_modes) \cup {None}]

NoSnapshot ==
    [is_on |-> TRUE, operation_mode |-> None,
     vertical_swing_mode |-> None, horizontal_swing_mode |-> None]

NoReading == [kind |-> "none", n |-> 0, s |-> <<>>]

\* what a temperature accessor may do
Chars == {"-", "+", "1", "8", ".", " "}

Readings ==
    {[kind |-> k, n |-> 0, s |-> <<>>] : k \in {"raise", "none", "nan", "inf", "obj"}}
    \cup {[kind |-> "int", n |-> n, s |-> <<>>] : n \in (0 - MaxTemp)..MaxTemp}
    \cup {[kind |-> "float", n |-> n, s |-> <<>>] : n \in (0 - 2 * MaxTemp)..(2 * MaxTemp)}
    \cup {[kind |-> "str", n |-> 0, s |-> s] :
            s \in UNION {[1..k -> Chars] : k \in 0..MaxStrLen}}

\* the outcome of the latest operation on the entity
NoLast ==
    [op |-> "init", arg |-> None, log |-> <<>>, result |-> "ok", failed |-> 0,
     ret |-> None, retInt |-> 0, list |-> <<>>, pre_on |-> TRUE, pre_preset |-> None,
     pre_cur |-> None, prev |-> <<>>, temperature |-> <<>>, reading |-> NoReading]

Ctx(failAt) ==
    [self |-> self, state |-> state, log |-> <<>>, result |-> "ok", failed |-> 0,
     ret |-> None, retInt |-> 0, list |-> <<>>, failAt |-> failAt]

LastOf(c, op, arg) ==
    [NoLast EXCEPT !.op = op, !.arg = arg, !.log = c.log, !.result = c.result,
                   !.failed = c.failed, !.ret = c.ret, !.retInt = c.retInt,
                   !.list = c.list]

Commit(c, l) ==
    /\ self' = c.self
    /\ state' = c.state
    /\ last' = l
    /\ UNCHANGED device

\* no call is in progress: the caller has taken the latest outcome
Idle == last.op \in {"init", "idle"}

Init ==
    /\ device \in ACDevices \cup RefDevices
    /\ state = NoSnapshot
    /\ self = IF device.kind = "AC"
              THEN LGEACClimate_init(device)
              ELSE LGERefrigeratorClimate_init(device)
    /\ last = NoLast

---------------------------------------------------------------------------
(* Operations on the air-conditioner entity *)

ReadHvacMode ==
    /\ device.kind = "AC"
    /\ LET c == hvac_mode(Ctx(0))
       IN  Commit(c, [LastOf(c, "hvac_mode", None) EXCEPT
                        !.pre_preset = self.attr_preset_mode,
                        !.prev = IF last.op = "set_hvac_mode"
                                 THEN <<last.arg, last.result>>
                                 ELSE <<>>])

ReadHvacModes ==
    /\ device.kind = "AC"
    /\ Idle
    /\ LET c == hvac_modes(Ctx(0))
       IN  Commit(c, LastOf(c, "hvac_modes", None))

ReadPresetModes ==
    /\ device.kind = "AC"
    /\ Idle
    /\ LET c == preset_modes(Ctx(0))
       IN  Commit(c, LastOf(c, "preset_modes", None))

SetHvacMode ==
    /\ device.kind = "AC"
    /\ Idle
    /\ \E mode \in ModeInputs, failAt \in 0..MaxFailAt :
         LET c == async_set_hvac_mode(Ctx(failAt), mode)
         IN  Commit(c, [LastOf(c, "set_hvac_mode", mode) EXCEPT !.pre_on = state.is_on])

SetPresetMode ==
    /\ device.kind = "AC"
    /\ Idle
    /\ \E preset_mode \in {PRESET_NONE, PRESET_ECO, "boost"}, failAt \in 0..MaxFailAt :
         LET c == async_set_preset_mode(Ctx(failAt), preset_mode)
         IN  Commit(c, [LastOf(c, "set_preset_mode", preset_mode) EXCEPT
                          !.pre_on = state.is_on,
                          !.pre_preset = self.attr_preset_mode])

SetTemperature ==
    /\ device.kind = "AC"
    /\ Idle
    /\ \E hvac \in ModeInputs \cup {None},
          temperature \in {<<>>, <<MaxTemp>>},
          failAt \in 0..MaxFailAt :
         LET c == async_set_temperature(
                      Ctx(failAt), [hvac_mode |-> hvac, temperature |-> temperature])
         IN  Commit(c, [LastOf(c, "set_temperature", hvac) EXCEPT
                          !.pre_on = state.is_on,
                          !.temperature = temperature])

SetFanMode ==
    /\ device.kind = "AC"
    /\ Idle
    /\ \E fan_mode \in SeqToSet(Prefix(FanNames, MaxFan + 1)), failAt \in 0..MaxFailAt :
         LET c == async_set_fan_mode(Ctx(failAt), fan_mode)
         IN  Commit(c, LastOf(c, "set_fan_mode", fan_mode))

SetSwingMode ==
    /\ device.kind = "AC"
    /\ Idle
    /\ \E mode \in SeqToSet(Prefix(SwingNames, MaxSwing + 1)), failAt \in 0..MaxFailAt :
         LET c == async_set_swing_mode(Ctx(failAt), mode)
         IN  Commit(c, [LastOf(c, "set_swing_mode", mode) EXCEPT
                          !.pre_cur = swing_mode(Ctx(0))])

SetSwingHorizontalMode ==
    /\ device.kind = "AC"
    /\ Idle
    /\ \E mode \in SeqToSet(Prefix(SwingNames, MaxSwing + 1)), failAt \in 0..MaxFailAt :
         LET c == async_set_swing_horizontal_mode(Ctx(failAt), mode)
         IN  Commit(c, [LastOf(c, "set_swing_horizontal_mode", mode) EXCEPT
                          !.pre_cur = swing_horizontal_mode(Ctx(0))])

TurnOn ==
    /\ device.kind = "AC"
    /\ Idle
    /\ \E failAt \in 0..MaxFailAt :
         LET c == async_turn_on(Ctx(failAt))
         IN  Commit(c, LastOf(c, "turn_on", None))

TurnOff ==
    /\ device.kind = "AC"
    /\ Idle
    /\ \E failAt \in 0..MaxFailAt :
         LET c == async_turn_off(Ctx(failAt))
         IN  Commit(c, LastOf(c, "turn_off", None))

\* the coordinator refreshes the snapshot: the device may have changed
Update ==
    /\ device.kind = "AC"
    /\ Idle
    /\ state' \in Snapshots(device)
    /\ last' = [NoLast EXCEPT !.op = "idle"]
    /\ UNCHANGED <<device, self>>

\* the caller takes the outcome of the call
Return ==
    /\ ~Idle
    /\ last' = [NoLast EXCEPT !.op = "idle"]
    /\ UNCHANGED <<device, state, self>>

---------------------------------------------------------------------------
(* Operations on the refrigerator entity *)

RefReadTargetTemperature ==
    /\ device.kind = "REFRIGERATOR"
    /\ Idle
    /\ \E reading \in Readings :
         LET c == target_temperature(Ctx(0), reading)
         IN  Commit(c, [LastOf(c, "ref_target_temperature", None) EXCEPT
                          !.reading = reading])

RefSetTemperature ==
    /\ device.kind = "REFRIGERATOR"
    /\ Idle
    /\ \E temperature \in {<<>>} \cup {<<t>> : t \in (0 - MaxTemp)..MaxTemp},
          failAt \in 0..MaxFailAt :
         LET c == ref_async_set_temperature(
                      Ctx(failAt), [hvac_mode |-> None, temperature |-> temperature])
         IN  Commit(c, [LastOf(c, "ref_set_temperature", None) EXCEPT
                          !.temperature = temperature])

Next ==
    \/ ReadHvacMode
    \/ ReadHvacModes
    \/ ReadPresetModes
    \/ SetHvacMode
    \/ SetPresetMode
    \/ SetTemperature
    \/ SetFanMode
    \/ SetSwingMode
    \/ SetSwingHorizontalMode
    \/ TurnOn
    \/ TurnOff
    \/ Update
    \/ Return
    \/ RefReadTargetTemperature
    \/ RefSetTemperature

Spec == Init /\ [][Next]_vars

---------------------------------------------------------------------------
(* The claims *)

\* the keys of HVAC_MODE_LOOKUP the device supports
SupportedHvacKeys == DictKeys(HVAC_MODE_LOOKUP) \cap device.op_modes

\* the HVAC modes the device offers: those of its supported keys, or AUTO
\* alone when it supports none
OfferedHvacModes ==
    IF SupportedHvacKeys = {} THEN {AUTO}
    ELSE {DictGet(HVAC_MODE_LOOKUP, k, None) : k \in SupportedHvacKeys}

HvacBuilt == self.hvac_mode_lookup # <<>>

PresetBuilt == self.preset_mode_lookup # <<>>

C1_TableOfDevice ==
    HvacBuilt =>
        LET t == self.hvac_mode_lookup[1]
        IN  /\ t # <<>>
            /\ IF SupportedHvacKeys = {}
               THEN t = << <<HVAC_MODE_NONE, AUTO>> >>
               ELSE /\ DictKeys(t) = SupportedHvacKeys
                    /\ Len(t) = Cardinality(SupportedHvacKeys)
                    /\ \A i \in 1..Len(t) :
                         \E j \in 1..Len(HVAC_MODE_LOOKUP) : t[i] = HVAC_MODE_LOOKUP[j]

\* C1: once built, the available HVAC-mode table is non-empty and holds
\* exactly the entries of HVAC_MODE_LOOKUP whose key the device supports, or
\* exactly the entry HVAC_MODE_NONE -> AUTO when it supports none of the
\* keys; and no later operation changes the built table.
C1_AvailableHvacModes ==
    /\ []C1_TableOfDevice
    /\ [][HvacBuilt => self.hvac_mode_lookup' = self.hvac_mode_lookup]_vars

\* the sentinel table was built for a device that supports modes, none of
\* them a key of HVAC_MODE_LOOKUP
C1_Witness ==
    /\ HvacBuilt
    /\ self.hvac_mode_lookup[1] = << <<HVAC_MODE_NONE, AUTO>> >>
    /\ device.op_modes # {}
    /\ last.op = "hvac_modes"

\* C2: every vendor code of the built preset table is supported by the
\* device and is a key of PRESET_MODE_LOOKUP whose associated HVAC mode is a
\* value of the available HVAC-mode table; with the sentinel HVAC table the
\* preset table is empty.
C2_AvailablePresetModes ==
    PresetBuilt =>
        /\ HvacBuilt
        /\ \A code \in DictKeys(self.preset_mode_lookup[1]) :
             /\ code \in device.op_modes
             /\ DictHas(PRESET_MODE_LOOKUP, code)
             /\ DictGet(PRESET_MODE_LOOKUP, code, None).hvac
                    \in SeqToSet(DictValues(self.hvac_mode_lookup[1]))
        /\ (self.hvac_mode_lookup[1] = << <<HVAC_MODE_NONE, AUTO>> >>
                => self.preset_mode_lookup[1] = <<>>)

\* a preset table with an entry was built
C2_Witness ==
    /\ PresetBuilt
    /\ self.preset_mode_lookup[1] # <<>>
    /\ "ENERGY_SAVING" \in DictKeys(self.preset_mode_lookup[1])

\* a read of hvac_mode that directly follows a completed set_hvac_mode(m),
\* m not OFF, so that the snapshot read is the one the commands left
ReadAfterSet ==
    /\ last.op = "hvac_mode"
    /\ last.prev # <<>>
    /\ last.prev[2] = "ok"
    /\ last.prev[1] # OFF

\* C3 as claimed: set_hvac_mode(m) followed by a read of hvac_mode returns m
\* for every m the reverse lookup resolves, AUTO through the sentinel included.
C3_RoundTripAsClaimed ==
    ReadAfterSet => last.ret = last.prev[1]

\* C3 as amended: set_hvac_mode(m) followed by a read of hvac_mode returns m
\* when the snapshot then reports an operating mode; when it reports none
\* (possible only where no set-operating-mode command was issued, AUTO through
\* the sentinel) the read returns OFF.
C3_RoundTrip ==
    ReadAfterSet =>
        /\ state.is_on
        /\ last.prev[1] \in OfferedHvacModes
        /\ IF state.operation_mode # None
           THEN last.ret = last.prev[1]
           ELSE /\ last.ret = OFF
                /\ last.prev[1] = AUTO
                /\ SupportedHvacKeys = {}

\* AUTO was set through the sentinel on a device that was off, and read back
C3_Witness ==
    /\ ReadAfterSet
    /\ last.prev[1] = AUTO
    /\ SupportedHvacKeys = {}
    /\ state.operation_mode # None
    /\ last.ret = AUTO

\* a read of hvac_mode found the device off or without operating mode
ReadWhileOff ==
    /\ last.op = "hvac_mode"
    /\ (~state.is_on \/ state.operation_mode = None)

\* C4 as claimed: when the device is off or reports no operating mode, a
\* read of hvac_mode returns OFF and leaves the active preset "none" whatever
\* it was before, its value at construction included.
C4_OffResetsPresetAsClaimed ==
    ReadWhileOff => last.ret = OFF /\ self.attr_preset_mode = PRESET_NONE

\* C4 as amended: when the device is off or reports no operating mode, a
\* read of hvac_mode returns OFF; it leaves the active preset "none" when the
\* attribute held a value before the read, and leaves it None when it still
\* held None, its value at construction.
C4_OffResetsPreset ==
    ReadWhileOff =>
        /\ last.ret = OFF
        /\ self.attr_preset_mode =
               IF last.pre_preset = None THEN None ELSE PRESET_NONE

\* a read of hvac_mode while off reset the preset label of an earlier read
C4_Witness ==
    /\ ReadWhileOff
    /\ last.pre_preset = PRESET_ECO
    /\ self.attr_preset_mode = PRESET_NONE

\* C5: whatever the snapshot, set_hvac_mode(OFF) issues exactly one device
\* command, power(False), and neither set_op_mode nor power(True); when that
\* command succeeds it then marks the state updated once and returns, and
\* when the command fails the failure is the outcome and nothing follows.
C5_SetOff ==
    (last.op = "set_hvac_mode" /\ last.arg = OFF) =>
        /\ Cmds(last.log) = <<Cmd("power", "False", 0)>>
        /\ last.result \in {"ok", "DeviceError"}
        /\ last.log = IF last.result = "ok"
                      THEN <<Cmd("power", "False", 0), SetUpdated>>
                      ELSE <<Cmd("power", "False", 0)>>

\* set_hvac_mode(OFF) completed on a device that was already off
C5_Witness ==
    /\ last.op = "set_hvac_mode"
    /\ last.arg = OFF
    /\ last.result = "ok"
    /\ ~last.pre_on
    /\ ~state.is_on

\* a device command of the latest operation failed
CommandFailed == last.result = "DeviceError"

\* the failing command is the last call of the operation: no command and no
\* async_set_updated follows it
NothingAfterFailure ==
    /\ last.failed = Len(last.log)
    /\ IsCmd(last.log[Len(last.log)])

\* C6 as claimed: when a device command of an operation fails, the failure
\* is the operation's outcome, no further device command is issued, and the
\* operation marks the state updated at no point.
C6_FailureAsClaimed ==
    CommandFailed => NothingAfterFailure /\ Marks(last.log) = 0

\* set_temperature was given a mode other than OFF and a temperature, and
\* the command that failed is set_target_temp
TemperatureFailedAfterMode ==
    /\ last.op = "set_temperature"
    /\ Truthy(last.arg)
    /\ last.arg # OFF
    /\ last.temperature # <<>>
    /\ last.log[Len(last.log)].name = "set_target_temp"

\* C6 as amended: when a device command of an operation fails, the failure
\* is the operation's outcome and nothing follows the failing command, no
\* device command and no mark-updated step; the operation has marked the
\* state updated at no point, except set_temperature given a mode other than
\* OFF and a temperature whose set_target_temp fails: there the nested
\* set_hvac_mode has marked it once, right before the failing command.
C6_Failure ==
    CommandFailed =>
        /\ NothingAfterFailure
        /\ IF TemperatureFailedAfterMode
           THEN /\ Marks(last.log) = 1
                /\ last.log[Len(last.log) - 1] = SetUpdated
           ELSE Marks(last.log) = 0

\* set_hvac_mode powered the device on and its set_op_mode then failed
C6_Witness ==
    /\ CommandFailed
    /\ last.op = "set_hvac_mode"
    /\ Len(last.log) = 2
    /\ last.log[2].name = "set_op_mode"

ReadTarget == last.op = "ref_target_temperature"

\* the integer nearest to zero from n halves: the value truncated
TruncatedHalves(n) ==
    CHOOSE k \in (0 - MaxTemp - 1)..(MaxTemp + 1) :
        /\ (n >= 0 => k >= 0 /\ 2 * k <= n /\ n < 2 * k + 2)
        /\ (n < 0 => k <= 0 /\ 2 * k >= n /\ n > 2 * k - 2)

\* s is an integer literal between blanks: an optional sign, then digits
IsIntLiteral(s) ==
    \E i \in 1..Len(s), j \in 1..Len(s) :
        /\ i <= j
        /\ \A k \in 1..Len(s) : (k < i \/ k > j) => s[k] = " "
        /\ LET first == IF s[i] \in {"+", "-"} THEN i + 1 ELSE i
           IN  /\ first <= j
               /\ \A k \in first..j : IsDigit(s[k])

\* the value of an integer literal: its digits weighted from the right
RECURSIVE LiteralValue(_)
LiteralValue(s) ==
    IF s = <<>> THEN 0
    ELSE IF s[Len(s)] = " " THEN LiteralValue(SubSeq(s, 1, Len(s) - 1))
    ELSE IF s[1] = " " \/ s[1] = "+" THEN LiteralValue(Tail(s))
    ELSE IF s[1] = "-" THEN 0 - LiteralValue(Tail(s))
    ELSE DigitValue(s[Len(s)]) + 10 * LiteralValue(SubSeq(s, 1, Len(s) - 1))

\* C7 as claimed: a read of the refrigerator's target_temperature never
\* raises; it returns None when the accessor raises, returns None or returns
\* a value that is no number, and the value truncated to an integer when the
\* accessor returns a number.
C7_TargetTemperatureAsClaimed ==
    ReadTarget =>
        /\ last.result = "ok"
        /\ (last.reading.kind \in {"raise", "none", "obj"} => last.ret = None)
        /\ (last.reading.kind = "str" /\ ~IsIntLiteral(last.reading.s)
                => last.ret = None)
        /\ (last.reading.kind = "int"
                => last.ret = "int" /\ last.retInt = last.reading.n)
        /\ (last.reading.kind = "float"
                => last.ret = "int" /\ last.retInt = TruncatedHalves(last.reading.n))

\* C7 as amended: a read of the refrigerator's target_temperature returns
\* None when the accessor returns None, a string that is no integer literal
\* or NaN; it returns the value as an integer when the accessor returns an
\* integer, a finite float (truncated towards zero) or a string that is an
\* integer literal; an exception of the accessor itself propagates, and so do
\* the TypeError of a value that is neither number nor string and the
\* OverflowError of an infinite float.
C7_TargetTemperature ==
    ReadTarget =>
        LET r == last.reading
        IN  /\ (r.kind = "raise" => last.result = "AccessorError")
            /\ (r.kind = "obj" => last.result = "TypeError")
            /\ (r.kind = "inf" => last.result = "OverflowError")
            /\ (r.kind \in {"none", "nan"} => last.result = "ok" /\ last.ret = None)
            /\ (r.kind = "str" /\ ~IsIntLiteral(r.s)
                    => last.result = "ok" /\ last.ret = None)
            /\ (r.kind = "str" /\ IsIntLiteral(r.s)
                    => /\ last.result = "ok"
                       /\ last.ret = "int"
                       /\ last.retInt = LiteralValue(r.s))
            /\ (r.kind = "int"
                    => last.result = "ok" /\ last.ret = "int" /\ last.retInt = r.n)
            /\ (r.kind = "float"
                    => /\ last.result = "ok"
                       /\ last.ret = "int"
                       /\ last.retInt = TruncatedHalves(r.n))

\* the accessor returned minus one half and the read returned 0
C7_Witness ==
    /\ ReadTarget
    /\ last.reading.kind = "float"
    /\ last.reading.n = 0 - 1
    /\ last.ret = "int"
    /\ last.retInt = 0

\* the swing modes of the entity's swing slot and the command of its axis:
\* the vertical ones, or the horizontal ones of a device that lists no
\* vertical swing mode
SwingSlotModes ==
    IF device.vertical_swing_modes # <<>>
    THEN device.vertical_swing_modes
    ELSE device.horizontal_swing_modes

SwingSlotCommand ==
    IF device.vertical_swing_modes # <<>>
    THEN "set_vertical_swing_mode"
    ELSE "set_horizontal_swing_mode"

\* the swing modes of the entity's horizontal slot: the horizontal ones of a
\* device that also lists vertical swing modes
HorizontalSlotModes ==
    IF device.vertical_swing_modes # <<>>
    THEN device.horizontal_swing_modes
    ELSE <<>>

\* what a swing setter did, given the modes and the command of its slot
SwingSetterOutcome(modes, command) ==
    /\ (last.arg = last.pre_cur => last.log = <<>>)
    /\ (last.arg \in SeqToSet(modes) /\ last.arg # last.pre_cur
            => /\ Cmds(last.log) = <<Cmd(command, last.arg, 0)>>
               /\ last.result \in {"ok", "DeviceError"}
               /\ last.log = IF last.result = "ok"
                             THEN <<Cmd(command, last.arg, 0), SetUpdated>>
                             ELSE <<Cmd(command, last.arg, 0)>>)

\* C8: set_swing_mode(m) and set_swing_horizontal_mode(m) with m the mode
\* their getter returned at the call issue no device command and do not mark
\* the state updated; with a valid m other than that mode they issue exactly
\* one set-swing command, on the axis of their slot, and then mark the state
\* updated (the mark is left out only when that command fails).
C8_SwingSetters ==
    /\ (last.op = "set_swing_mode"
            => SwingSetterOutcome(SwingSlotModes, SwingSlotCommand))
    /\ (last.op = "set_swing_horizontal_mode"
            => SwingSetterOutcome(HorizontalSlotModes, "set_horizontal_swing_mode"))

\* set_swing_mode changed the swing of a device with horizontal swing only
C8_Witness ==
    /\ last.op = "set_swing_mode"
    /\ device.vertical_swing_modes = <<>>
    /\ last.result = "ok"
    /\ last.log = <<Cmd("set_horizontal_swing_mode", last.arg, 0), SetUpdated>>
    /\ state.horizontal_swing_mode = last.arg

\* the codes of the device that qualify as presets: supported, keys of
\* PRESET_MODE_LOOKUP, their associated HVAC mode offered
QualifyingPresetCodes ==
    {code \in device.op_modes \cap DictKeys(PRESET_MODE_LOOKUP) :
        DictGet(PRESET_MODE_LOOKUP, code, None).hvac \in OfferedHvacModes}

\* the HVAC mode associated with a preset label
HvacOfPreset(label) ==
    LET i == CHOOSE i \in 1..Len(PRESET_MODE_LOOKUP) :
                 PRESET_MODE_LOOKUP[i][2].preset = label
    IN  PRESET_MODE_LOOKUP[i][2].hvac

ClearPreset == last.op = "set_preset_mode" /\ last.arg = PRESET_NONE

\* set_preset_mode("none") found a preset active and the device on
ClearActivePreset ==
    /\ ClearPreset
    /\ last.pre_preset \notin {None, PRESET_NONE}
    /\ last.pre_on

\* the calls of set_hvac_mode(mode) on a device that is on: one set_op_mode
\* with the supported code of the mode, then the mark unless it failed
ReinvokedSetHvacMode(mode) ==
    \E code \in SupportedHvacKeys :
        /\ DictGet(HVAC_MODE_LOOKUP, code, None) = mode
        /\ last.result \in {"ok", "DeviceError"}
        /\ last.log = IF last.result = "ok"
                      THEN <<Cmd("set_op_mode", code, 0), SetUpdated>>
                      ELSE <<Cmd("set_op_mode", code, 0)>>

\* C9 as claimed: set_preset_mode("none") with a preset active and the
\* device on re-invokes set_hvac_mode with the preset's HVAC mode, which
\* resolves; in every other case, a device with no preset available
\* included, it issues no command, marks nothing and raises no error.
C9_ClearPresetAsClaimed ==
    ClearPreset =>
        IF ClearActivePreset
        THEN ReinvokedSetHvacMode(HvacOfPreset(last.pre_preset))
        ELSE last.log = <<>> /\ last.result = "ok"

\* C9 as amended: set_preset_mode("none") on a device with no preset
\* available raises NotImplementedError, issuing no command and marking
\* nothing; on a device with presets, with a preset active and the device on
\* it re-invokes set_hvac_mode with the preset's HVAC mode, which resolves,
\* and otherwise (active preset "none", or device off) it issues no command,
\* marks nothing and raises no error.
C9_ClearPreset ==
    ClearPreset =>
        IF QualifyingPresetCodes = {}
        THEN last.log = <<>> /\ last.result = "NotImplementedError"
        ELSE IF ClearActivePreset
        THEN ReinvokedSetHvacMode(HvacOfPreset(last.pre_preset))
        ELSE last.log = <<>> /\ last.result = "ok"

\* set_preset_mode("none") left the eco preset by setting the mode COOL
C9_Witness ==
    /\ ClearActivePreset
    /\ last.pre_preset = PRESET_ECO
    /\ last.result = "ok"
    /\ state.operation_mode = "COOL"

\* a read of hvac_mode found the device on with an operating mode
ReadWhileOn ==
    /\ last.op = "hvac_mode"
    /\ state.is_on
    /\ state.operation_mode # None

\* the available HVAC-mode table's entry for a code, AUTO when it has none
HvacOfCode(code) ==
    IF code \in SupportedHvacKeys
    THEN DictGet(HVAC_MODE_LOOKUP, code, None)
    ELSE AUTO

\* a later key of PRESET_MODE_LOOKUP with the same preset label qualifies too
Displaced(code) ==
    \E i \in 1..Len(PRESET_MODE_LOOKUP), j \in 1..Len(PRESET_MODE_LOOKUP) :
        /\ i < j
        /\ PRESET_MODE_LOOKUP[i][1] = code
        /\ PRESET_MODE_LOOKUP[j][1] \in QualifyingPresetCodes
        /\ PRESET_MODE_LOOKUP[j][2].preset = PRESET_MODE_LOOKUP[i][2].preset

\* C10 as claimed: with the device on in mode c, a read of hvac_mode sets
\* the active preset to c's label and returns c's associated HVAC mode for
\* every c that is supported, a key of PRESET_MODE_LOOKUP and of an offered
\* HVAC mode; for every other c it leaves the active preset "none" and
\* returns the HVAC-mode table's entry for c, or AUTO.
C10_ReadWhileOnAsClaimed ==
    ReadWhileOn =>
        LET c == state.operation_mode
        IN  IF c \in QualifyingPresetCodes
            THEN /\ self.attr_preset_mode = DictGet(PRESET_MODE_LOOKUP, c, None).preset
                 /\ last.ret = DictGet(PRESET_MODE_LOOKUP, c, None).hvac
            ELSE /\ self.attr_preset_mode = PRESET_NONE
                 /\ last.ret = HvacOfCode(c)

\* C10 as amended: the read sets the preset and returns the associated HVAC
\* mode for every such c that no later key of PRESET_MODE_LOOKUP with the
\* same label, qualifying too, displaces; for every other c, a displaced one
\* included, it returns the HVAC-mode table's entry for c, or AUTO, and
\* leaves the active preset "none" on a device with presets and None, its
\* value at construction, on a device without.
C10_ReadWhileOn ==
    ReadWhileOn =>
        LET c == state.operation_mode
        IN  IF c \in QualifyingPresetCodes /\ ~Displaced(c)
            THEN /\ self.attr_preset_mode = DictGet(PRESET_MODE_LOOKUP, c, None).preset
                 /\ last.ret = DictGet(PRESET_MODE_LOOKUP, c, None).hvac
            ELSE /\ self.attr_preset_mode =
                        IF QualifyingPresetCodes = {} THEN None ELSE PRESET_NONE
                 /\ last.ret = HvacOfCode(c)

\* the device is in ENERGY_SAVER, which displaces ENERGY_SAVING, and the
\* read reported the eco preset in mode COOL
C10_Witness ==
    /\ ReadWhileOn
    /\ state.operation_mode = "ENERGY_SAVER"
    /\ "ENERGY_SAVING" \in QualifyingPresetCodes
    /\ self.attr_preset_mode = PRESET_ECO
    /\ last.ret = COOL

====
